---- MODULE Spec2Model ----
(***************************************************************************)
(* Conversation Logger API (src/server.py, src/db.py): a FastAPI service   *)
(* that stores conversation records in one PostgreSQL table and serves     *)
(* them through five routes.  Strings are sequences of one-character       *)
(* strings; an Optional value is a sequence of length at most one.         *)
(***************************************************************************)
EXTENDS Integers, Sequences, FiniteSets, TLC

VARIABLES API_KEY, app, sessionTZ, table, seq, lst, resp

vars == <<API_KEY, app, sessionTZ, table, seq, lst, resp>>

(***************************************************************************)
(* Optional values and strings                                             *)
(***************************************************************************)
None == <<>>
Some(x) == <<x>>
IsSome(o) == Len(o) = 1
Val(o) == o[1]

\* n copies of the character c
Rep(c, n) == [i \in 1..n |-> c]

Min(a, b) == IF a < b THEN a ELSE b
Max(a, b) == IF a < b THEN b ELSE a

UpperLetters == <<"A","B","C","D","E","F","G","H","I","J","K","L","M",
                  "N","O","P","Q","R","S","T","U","V","W","X","Y","Z">>
LowerLetters == <<"a","b","c","d","e","f","g","h","i","j","k","l","m",
                  "n","o","p","q","r","s","t","u","v","w","x","y","z">>

\* str.lower() / SQL LOWER() on one character
LowerChar(c) ==
    IF \E k \in DOMAIN UpperLetters : UpperLetters[k] = c
    THEN LowerLetters[CHOOSE k \in DOMAIN UpperLetters : UpperLetters[k] = c]
    ELSE c

\* str.lower() / SQL LOWER()
Lower(s) == [i \in DOMAIN s |-> LowerChar(s[i])]

Whitespace == {" ", "\t", "\n", "\r"}

\* str.strip(): drop leading and trailing whitespace
Strip(s) ==
    LET keep == {i \in DOMAIN s : s[i] \notin Whitespace}
    IN  IF keep = {} THEN <<>>
        ELSE LET lo == CHOOSE i \in keep : \A j \in keep : i <= j
                 hi == CHOOSE i \in keep : \A j \in keep : j <= i
             IN  SubSeq(s, lo, hi)

\* s occurs in t as a literal contiguous substring
IsSubstring(s, t) ==
    \E i \in 1..(Len(t) - Len(s) + 1) : SubSeq(t, i, i + Len(s) - 1) = s

\* positions at or after i where old occurs in s
Occurrences(s, i, old) ==
    {j \in i..(Len(s) - Len(old) + 1) : SubSeq(s, j, j + Len(old) - 1) = old}

\* str.replace(old, new) from position i: find the next occurrence, copy what
\* precedes it, emit new, and continue after the occurrence
RECURSIVE ReplaceFrom(_, _, _, _)
ReplaceFrom(s, i, old, new) ==
    IF Occurrences(s, i, old) = {} THEN SubSeq(s, i, Len(s))
    ELSE LET m == CHOOSE j \in Occurrences(s, i, old) :
                      \A k \in Occurrences(s, i, old) : j <= k
         IN  SubSeq(s, i, m - 1) \o new \o ReplaceFrom(s, m + Len(old), old, new)

StrReplace(s, old, new) == ReplaceFrom(s, 1, old, new)

\* SQL LIKE: % matches any run of characters, _ any one character, and a
\* backslash makes the next pattern character literal
RECURSIVE LikeFrom(_, _, _, _)
LikeFrom(s, i, p, j) ==
    IF j > Len(p) THEN i > Len(s)
    ELSE IF p[j] = "%"
         THEN LikeFrom(s, i, p, j + 1) \/ (i <= Len(s) /\ LikeFrom(s, i + 1, p, j))
    ELSE IF p[j] = "_"
         THEN i <= Len(s) /\ LikeFrom(s, i + 1, p, j + 1)
    ELSE IF p[j] = "\\" /\ j < Len(p)
         THEN i <= Len(s) /\ s[i] = p[j + 1] /\ LikeFrom(s, i + 1, p, j + 2)
    ELSE i <= Len(s) /\ s[i] = p[j] /\ LikeFrom(s, i + 1, p, j + 1)

Like(s, p) == LikeFrom(s, 1, p, 1)

(***************************************************************************)
(* Bounds of the model                                                     *)
(***************************************************************************)
\* ids the serial column may issue before the model stops inserting
MaxId == 2

(***************************************************************************)
(* Configuration and start-up                                              *)
(***************************************************************************)
\* os.getenv("API_KEY"): unset, set to the empty string, or set to a secret
ApiKeyValues == {None, Some(<<>>), Some(<<"k", "1">>), Some(<<"k", "2">>)}

\* the x-api-key header of a request: absent or present
HeaderValues == {None, Some(<<"k", "1">>)}

\* truth value of an Optional[str] in a Python condition
Truthy(o) == IsSome(o) /\ Val(o) # <<>>

\* the TimeZone setting of the database session, in hours east of UTC; the
\* code never sets it, so it is whatever the server is configured with
SessionTZValues == {0, 1}

\* dependencies=[require_api_key] if API_KEY else []: the list holds the bare
\* function, not a Depends(...) object
RouteDependencies(key) ==
    IF Truthy(key) THEN <<[kind |-> "function", call |-> "require_api_key"]>>
    ELSE <<>>

\* FastAPI builds each route when its decorator runs, at import: it reads
\* .dependency of every element of dependencies, which only a Depends object
\* has; a bare function raises AttributeError and the module fails to load
AddApiRoute(deps) ==
    IF \A i \in DOMAIN deps : deps[i].kind = "Depends" THEN "up" ELSE "failed"

\* require_api_key: TRUE when the request is rejected with 401
require_api_key(key, x_api_key) == Truthy(key) /\ x_api_key # key

\* the dependencies of a route run before its handler
GateRejects(key, x_api_key) ==
    \E i \in DOMAIN RouteDependencies(key) :
        /\ RouteDependencies(key)[i].call = "require_api_key"
        /\ require_api_key(key, x_api_key)

(***************************************************************************)
(* Timestamps: hours; a datetime is a wall-clock reading t with an         *)
(* optional UTC offset off (None for a naive datetime)                     *)
(***************************************************************************)
HoursPerDay == 24


\* a binding that forgets the offset of an aware datetime
ToInstant_DropsOffset(d, tz) == d.t

\* a datetime bound to a timestamptz column: an aware value is converted by
\* its own offset, a naive one is read in the session's time zone
ToInstant(d, tz) == d.t - (IF IsSome(d.off) THEN Val(d.off) ELSE tz)

\* a timestamptz column read back: an aware datetime in the session's zone
FromInstant(i, tz) == [t |-> i + tz, off |-> Some(tz)]

\* DATE(date_conversation AT TIME ZONE 'UTC')
UtcDay(i) == i \div HoursPerDay

\* datetime.now(timezone.utc)
ClockValues == {26}
UtcNow(n) == [t |-> n, off |-> Some(0)]

(***************************************************************************)
(* Schemas                                                                 *)
(***************************************************************************)
MaxUserNameLen == 200
MaxSujetLen == 200
PreviewLen == 160
MinLimit == 1
MaxLimit == 200
MinId == 1

\* ConversationIn
ValidConversationIn(p) ==
    /\ Len(p.user_name) >= 1
    /\ Len(p.user_name) <= MaxUserNameLen
    /\ Len(p.conversation) >= 1
    /\ IsSome(p.sujet) => Len(Val(p.sujet)) <= MaxSujetLen

\* the query parameters of list_conversations
ValidListQuery(q) ==
    /\ Len(q.sujet) <= MaxSujetLen
    /\ IsSome(q.user_name) => Len(Val(q.user_name)) <= MaxUserNameLen
    /\ q.limit >= MinLimit
    /\ q.limit <= MaxLimit
    /\ q.offset >= 0

\* the path and query parameters of get_conversation_by_id and of export
ValidIdQuery(q) == q.id >= MinId /\ Len(q.sujet) <= MaxSujetLen

(***************************************************************************)
(* The conversations table and its queries.  A row is                      *)
(* [id, user_name, conversation, sujet, date_conversation]; submitted is   *)
(* history kept beside the row: the payload of the request that made it.   *)
(***************************************************************************)
\* LOWER(sujet) = %s with sujet.lower(): a NULL sujet compares as unknown
SujetMatches(row, sujet) ==
    IsSome(row.sujet) /\ Lower(Val(row.sujet)) = Lower(sujet)

\* "%" + user_name.lower() + "%"
LikePattern(user_name) == <<"%">> \o Lower(user_name) \o <<"%">>

\* where_sql with params: the conjunction of the filters supplied
Where(q, row) ==
    /\ SujetMatches(row, q.sujet)
    /\ IsSome(q.date) => UtcDay(row.date_conversation) = Val(q.date)
    /\ Truthy(q.user_name) =>
           Like(Lower(row.user_name), LikePattern(Val(q.user_name)))

Matching(tbl, q) == {tbl[k] : k \in {j \in DOMAIN tbl : Where(q, tbl[j])}}


\* an ordering whose tie-break is ascending
Before_AscendingId(a, b) ==
    \/ a.date_conversation > b.date_conversation
    \/ a.date_conversation = b.date_conversation /\ a.id < b.id

\* ORDER BY date_conversation DESC, id DESC: a comes before b
Before(a, b) ==
    \/ a.date_conversation > b.date_conversation
    \/ a.date_conversation = b.date_conversation /\ a.id > b.id

RECURSIVE OrderBy(_)
OrderBy(S) ==
    IF S = {} THEN <<>>
    ELSE LET first == CHOOSE r \in S : \A o \in S \ {r} : Before(r, o)
         IN  <<first>> \o OrderBy(S \ {first})

\* LIMIT %s OFFSET %s
LimitOffset(s, limit, offset) == SubSeq(s, offset + 1, Min(Len(s), offset + limit))

\* the first statement of list_conversations
SelectPage(tbl, q) == LimitOffset(OrderBy(Matching(tbl, q)), q.limit, q.offset)


\* a count that leaves the filters out
CountQuery_Unfiltered(tbl, q) == Len(tbl)

\* SELECT COUNT(*) ... with the same where_sql and params
CountQuery(tbl, q) == Cardinality(Matching(tbl, q))

\* WHERE id=%s AND LOWER(sujet) = %s, then fetchone(): a row or None
Lookup(tbl, q) ==
    LET hits == {k \in DOMAIN tbl : tbl[k].id = q.id /\ SujetMatches(tbl[k], q.sujet)}
    IN  IF hits = {} THEN None ELSE Some(tbl[CHOOSE k \in hits : TRUE])

\* the truncation marker: the single character U+2026, written here in ASCII
Ellipsis == "..."

\* a preview that already truncates at the boundary
Preview_AtBoundary(conv) ==
    IF Len(conv) >= PreviewLen THEN SubSeq(conv, 1, PreviewLen) \o <<Ellipsis>>
    ELSE conv

\* preview = (conv[:160] + marker) if len(conv) > 160 else conv
Preview(conv) ==
    IF Len(conv) > PreviewLen THEN SubSeq(conv, 1, PreviewLen) \o <<Ellipsis>>
    ELSE conv

\* ConversationSummary built from a selected row
Summary(row, tz) ==
    [id |-> row.id, user_name |-> row.user_name, sujet |-> row.sujet,
     date_conversation |-> FromInstant(row.date_conversation, tz),
     preview |-> Preview(row.conversation)]

\* ConversationDetail built from the fetched row
Detail(row, tz) ==
    [id |-> row.id, user_name |-> row.user_name, sujet |-> row.sujet,
     date_conversation |-> FromInstant(row.date_conversation, tz),
     conversation |-> row.conversation]

\* row[0].replace(" , ", "\n")
Delimiter == <<" ", ",", " ">>
LineBreak == <<"\n">>

\* an export that splits on the comma alone
ExportText_CommaOnly(conv) == StrReplace(conv, <<",">>, <<"\n">>)

ExportText(conv) == StrReplace(conv, Delimiter, LineBreak)

\* the row written by the INSERT of save_conversation
NewRow(id, p, now, tz) ==
    [id |-> id,
     user_name |-> Strip(p.user_name),
     conversation |-> p.conversation,
     sujet |-> p.sujet,
     date_conversation |->
         ToInstant(IF IsSome(p.date_conversation) THEN Val(p.date_conversation)
                   ELSE UtcNow(now), tz),
     submitted |-> p]

(***************************************************************************)
(* Exceptions to responses                                                 *)
(***************************************************************************)
\* except Exception as e: raise HTTPException(status_code=500, ...)
CatchAll(raised) == 500


\* a handler without the except HTTPException clause
CatchHttpFirst_Swallows(raised) == 500

\* except HTTPException: raise / except Exception as e: ... 500
CatchHttpFirst(raised) ==
    IF raised.kind = "HTTPException" THEN raised.status ELSE 500

NotFound == [kind |-> "HTTPException", status |-> 404]
DbError == [kind |-> "Exception", status |-> 0]

(***************************************************************************)
(* Requests the model sends                                                *)
(***************************************************************************)
BasePayload ==
    [user_name |-> <<"A", "n", "n", "e", " ">>,
     conversation |-> <<"a", " ", ",", " ", "b", " ", ",", " ", "c">>,
     sujet |-> Some(<<"B", "o", "t">>),
     date_conversation |-> Some([t |-> HoursPerDay, off |-> Some(1)])]

\* one field of the base payload replaced
WithUserName(u) == [BasePayload EXCEPT !.user_name = u]
WithConversation(c) == [BasePayload EXCEPT !.conversation = c]
WithSujet(x) == [BasePayload EXCEPT !.sujet = x]
WithDate(d) == [BasePayload EXCEPT !.date_conversation = d]

Blank == <<" ">>
TooLongName == Rep("x", MaxUserNameLen + 1)
OnlyDelimiters == <<" ", ",", " ", ",", " ">>
AwareUtc == [t |-> HoursPerDay, off |-> Some(0)]
Naive == [t |-> HoursPerDay, off |-> None]

\* requests of Spec: one valid and one invalid payload, every header, every fault
Payloads == {BasePayload, WithUserName(<<>>)}
ListQueries ==
    [sujet : {<<"B", "O", "T">>}, date : {None}, user_name : {None},
     limit : {0, MaxLimit}, offset : {0}]
SujetQueries == {<<"B", "O", "T">>, <<"q", "a">>}
IdQueries == [id : 0..(MaxId + 1), sujet : SujetQueries]
Faults == {"none", "connect", "execute"}
SaveFaults == Faults \cup {"commit"}

\* requests of SpecStore: payloads around validation, trimming, the optional
\* fields and the export delimiter
StorePayloads ==
    {BasePayload, WithUserName(<<>>), WithUserName(Blank), WithUserName(TooLongName),
     WithConversation(<<>>), WithConversation(OnlyDelimiters),
     WithConversation(<<"h", "i">>), WithSujet(None),
     WithDate(None), WithDate(Some(AwareUtc)), WithDate(Some(Naive))}
StoreFaults == {"none", "execute"}

\* requests of SpecList: payloads that differ in what the filters, the order
\* and the preview read, and every combination of the filters
ListPayloads ==
    {BasePayload,
     [BasePayload EXCEPT !.user_name = <<"a", "b", "c">>,
                         !.conversation = Rep("x", PreviewLen)],
     [BasePayload EXCEPT !.date_conversation = Some(AwareUtc),
                         !.conversation = Rep("x", PreviewLen + 1)],
     WithSujet(None)}
FilterQueries ==
    [sujet : {<<"B", "O", "T">>},
     date : {None, Some(0)},
     user_name : {None, Some(<<"a", "n", "n">>), Some(<<"a", "_", "c">>)},
     limit : {1, MaxLimit},
     offset : {0, 1}]

(***************************************************************************)
(* Responses.  resp is the response most recently returned, with the       *)
(* request it answers and what the handler did with its connection; status *)
(* 0 is no HTTP response.  resp is cleared while a list request is between *)
(* its two statements (lst.pc = "selected"); only inserts are interleaved  *)
(* there, the read-only handlers do not change what the list request sees. *)
(* fault, seqAtSelect and seqAtCount are history: the call that raised and *)
(* the next id of the serial column when each statement ran.               *)
(***************************************************************************)
NoPayload == [user_name |-> <<>>, conversation |-> <<>>, sujet |-> None,
              date_conversation |-> None]
NoListQuery == [sujet |-> <<>>, date |-> None, user_name |-> None,
                limit |-> 0, offset |-> 0]
NoIdQuery == [id |-> 0, sujet |-> <<>>]

NoResp ==
    [route |-> "none", x_api_key |-> None, status |-> 0,
     payload |-> NoPayload, listq |-> NoListQuery, idq |-> NoIdQuery,
     connAcquired |-> FALSE, connClosed |-> FALSE, statements |-> 0,
     id |-> 0, items |-> <<>>, total |-> 0, detail |-> None, text |-> <<>>,
     fault |-> "none", seqAtSelect |-> 0, seqAtCount |-> 0]

Idle == [pc |-> "idle", x_api_key |-> None, q |-> NoListQuery, rows |-> <<>>,
         seqAtSelect |-> 0]

DataRoutes == {"save_conversation", "list_conversations",
               "get_conversation_by_id", "export_conversation_txt"}

Init ==
    /\ API_KEY \in ApiKeyValues
    /\ app = AddApiRoute(RouteDependencies(API_KEY))
    /\ sessionTZ \in SessionTZValues
    /\ table = <<>>
    /\ seq = 1
    /\ lst = Idle
    /\ resp = NoResp

(***************************************************************************)
(* Handlers.  fault names the call of the handler that raises, if any.     *)
(***************************************************************************)
\* the module failed to load: no route is served
Unserved(route, h) ==
    /\ app = "failed"
    /\ resp' = [NoResp EXCEPT !.route = route, !.x_api_key = h]
    /\ UNCHANGED <<API_KEY, app, sessionTZ, table, seq, lst>>

health(h) ==
    /\ app = "up"
    /\ lst.pc = "idle"
    /\ resp' = [NoResp EXCEPT !.route = "health", !.x_api_key = h, !.status = 200]
    /\ UNCHANGED <<API_KEY, app, sessionTZ, table, seq, lst>>

save_conversation(p, h, fault, now) ==
    LET r == [NoResp EXCEPT !.route = "save_conversation", !.x_api_key = h,
                            !.payload = p]
    IN
    /\ app = "up"
    /\ seq <= MaxId
    /\ IF GateRejects(API_KEY, h)
       THEN /\ resp' = [r EXCEPT !.status = 401]
            /\ UNCHANGED <<table, seq>>
       ELSE IF ~ValidConversationIn(p)
       THEN /\ resp' = [r EXCEPT !.status = 422]
            /\ UNCHANGED <<table, seq>>
       ELSE IF fault = "connect"
       THEN /\ resp' = [r EXCEPT !.status = CatchAll(DbError), !.fault = fault]
            /\ UNCHANGED <<table, seq>>
       ELSE IF fault = "execute"
       THEN /\ resp' = [r EXCEPT !.status = CatchAll(DbError), !.fault = fault,
                                 !.connAcquired = TRUE, !.statements = 1]
            /\ UNCHANGED <<table, seq>>
       ELSE IF fault = "commit"
       THEN \* the id is drawn, the row is never committed
            /\ resp' = [r EXCEPT !.status = CatchAll(DbError), !.fault = fault,
                                 !.connAcquired = TRUE, !.statements = 1]
            /\ seq' = seq + 1
            /\ UNCHANGED table
       ELSE /\ table' = Append(table, NewRow(seq, p, now, sessionTZ))
            /\ seq' = seq + 1
            /\ resp' = [r EXCEPT !.status = 200, !.id = seq,
                                 !.connAcquired = TRUE, !.connClosed = TRUE,
                                 !.statements = 1]
    /\ UNCHANGED <<API_KEY, app, sessionTZ, lst>>

\* list_conversations up to rows = cur.fetchall()
list_select(q, h, fault) ==
    LET r == [NoResp EXCEPT !.route = "list_conversations", !.x_api_key = h,
                            !.listq = q]
    IN
    /\ app = "up"
    /\ lst.pc = "idle"
    /\ IF GateRejects(API_KEY, h)
       THEN resp' = [r EXCEPT !.status = 401] /\ UNCHANGED lst
       ELSE IF ~ValidListQuery(q)
       THEN resp' = [r EXCEPT !.status = 422] /\ UNCHANGED lst
       ELSE IF fault = "connect"
       THEN /\ resp' = [r EXCEPT !.status = CatchAll(DbError), !.fault = fault]
            /\ UNCHANGED lst
       ELSE IF fault = "execute"
       THEN /\ resp' = [r EXCEPT !.status = CatchAll(DbError), !.fault = fault,
                                 !.connAcquired = TRUE, !.statements = 1]
            /\ UNCHANGED lst
       ELSE \* the response is pending
            /\ lst' = [pc |-> "selected", x_api_key |-> h, q |-> q,
                       rows |-> SelectPage(table, q), seqAtSelect |-> seq]
            /\ resp' = NoResp
    /\ UNCHANGED <<API_KEY, app, sessionTZ, table, seq>>

\* list_conversations from the COUNT statement to the response
list_count(fault) ==
    LET r == [NoResp EXCEPT !.route = "list_conversations",
                            !.x_api_key = lst.x_api_key, !.listq = lst.q,
                            !.connAcquired = TRUE, !.statements = 2,
                            !.seqAtSelect = lst.seqAtSelect, !.seqAtCount = seq]
    IN
    /\ lst.pc = "selected"
    /\ IF fault = "execute"
       THEN resp' = [r EXCEPT !.status = CatchAll(DbError), !.fault = fault]
       ELSE resp' = [r EXCEPT !.status = 200,
                              !.items = [k \in DOMAIN lst.rows |->
                                            Summary(lst.rows[k], sessionTZ)],
                              !.total = CountQuery(table, lst.q),
                              !.connClosed = TRUE]
    /\ lst' = Idle
    /\ UNCHANGED <<API_KEY, app, sessionTZ, table, seq>>

get_conversation_by_id(q, h, fault) ==
    LET r == [NoResp EXCEPT !.route = "get_conversation_by_id", !.x_api_key = h,
                            !.idq = q]
        row == Lookup(table, q)
    IN
    /\ app = "up"
    /\ lst.pc = "idle"
    /\ resp' =
         IF GateRejects(API_KEY, h) THEN [r EXCEPT !.status = 401]
         ELSE IF ~ValidIdQuery(q) THEN [r EXCEPT !.status = 422]
         ELSE IF fault = "connect"
         THEN [r EXCEPT !.status = CatchHttpFirst(DbError), !.fault = fault]
         ELSE IF fault = "execute"
         THEN [r EXCEPT !.status = CatchHttpFirst(DbError), !.fault = fault,
                        !.connAcquired = TRUE, !.statements = 1]
         ELSE IF ~IsSome(row)
         THEN [r EXCEPT !.status = CatchHttpFirst(NotFound),
                        !.connAcquired = TRUE, !.connClosed = TRUE,
                        !.statements = 1]
         ELSE [r EXCEPT !.status = 200,
                        !.detail = Some(Detail(Val(row), sessionTZ)),
                        !.connAcquired = TRUE, !.connClosed = TRUE,
                        !.statements = 1]
    /\ UNCHANGED <<API_KEY, app, sessionTZ, table, seq, lst>>

export_conversation_txt(q, h, fault) ==
    LET r == [NoResp EXCEPT !.route = "export_conversation_txt", !.x_api_key = h,
                            !.idq = q]
        row == Lookup(table, q)
    IN
    /\ app = "up"
    /\ lst.pc = "idle"
    /\ resp' =
         IF GateRejects(API_KEY, h) THEN [r EXCEPT !.status = 401]
         ELSE IF ~ValidIdQuery(q) THEN [r EXCEPT !.status = 422]
         ELSE IF fault = "connect"
         THEN [r EXCEPT !.status = CatchHttpFirst(DbError), !.fault = fault]
         ELSE IF fault = "execute"
         THEN [r EXCEPT !.status = CatchHttpFirst(DbError), !.fault = fault,
                        !.connAcquired = TRUE, !.statements = 1]
         ELSE IF ~IsSome(row)
         THEN [r EXCEPT !.status = CatchHttpFirst(NotFound),
                        !.connAcquired = TRUE, !.connClosed = TRUE,
                        !.statements = 1]
         ELSE [r EXCEPT !.status = 200,
                        !.text = ExportText(Val(row).conversation),
                        !.connAcquired = TRUE, !.connClosed = TRUE,
                        !.statements = 1]
    /\ UNCHANGED <<API_KEY, app, sessionTZ, table, seq, lst>>

Routes == DataRoutes \cup {"health"}

Next ==
    \/ \E route \in Routes, h \in HeaderValues : Unserved(route, h)
    \/ \E h \in HeaderValues : health(h)
    \/ \E p \in Payloads, h \in HeaderValues, fault \in SaveFaults, now \in ClockValues :
          save_conversation(p, h, fault, now)
    \/ \E q \in ListQueries, h \in HeaderValues, fault \in Faults :
          list_select(q, h, fault)
    \/ \E fault \in {"none", "execute"} : list_count(fault)
    \/ \E q \in IdQueries, h \in HeaderValues, fault \in Faults :
          get_conversation_by_id(q, h, fault)
    \/ \E q \in IdQueries, h \in HeaderValues, fault \in Faults :
          export_conversation_txt(q, h, fault)

Spec == Init /\ [][Next]_vars

\* no API key configured
InitOpen == Init /\ API_KEY = None

NextStore ==
    \/ health(None)
    \/ \E p \in StorePayloads, now \in ClockValues :
          save_conversation(p, None, "none", now)
    \/ \E q \in ListQueries : list_select(q, None, "none")
    \/ list_count("none")
    \/ \E q \in IdQueries, fault \in StoreFaults : get_conversation_by_id(q, None, fault)
    \/ \E q \in IdQueries, fault \in StoreFaults : export_conversation_txt(q, None, fault)

SpecStore == InitOpen /\ [][NextStore]_vars

NextList ==
    \/ health(None)
    \/ \E p \in ListPayloads, now \in ClockValues :
          save_conversation(p, None, "none", now)
    \/ \E q \in FilterQueries : list_select(q, None, "none")
    \/ list_count("none")
    \/ \E q \in {[id |-> 1, sujet |-> <<"B", "O", "T">>]} :
          get_conversation_by_id(q, None, "none")
    \/ \E q \in {[id |-> 1, sujet |-> <<"B", "O", "T">>]} :
          export_conversation_txt(q, None, "none")

SpecList == InitOpen /\ [][NextList]_vars

(***************************************************************************)
(* Properties                                                              *)
(***************************************************************************)
\* the stored rows with the given id (at most one: ids are never reused)
RowsWithId(i) == {table[k] : k \in {j \in DOMAIN table : table[j].id = i}}

\* the row sujet equals the requested sujet ignoring case
SameSujet(row, sujet) ==
    IsSome(row.sujet) /\ Lower(Val(row.sujet)) = Lower(sujet)

\* a datetime as hours UTC; a naive datetime is read as UTC
NormalizeUtc(d) == d.t - (IF IsSome(d.off) THEN Val(d.off) ELSE 0)

IsList200 == resp.route = "list_conversations" /\ resp.status = 200

\* the rows a list response selected its items from
Candidates ==
    {table[k] : k \in {j \in DOMAIN table :
        table[j].id < resp.seqAtSelect /\ Where(resp.listq, table[j])}}

\* the rows in the table when a list response ran its COUNT statement
CountedRows ==
    {table[k] : k \in {j \in DOMAIN table :
        table[j].id < resp.seqAtCount /\ Where(resp.listq, table[j])}}

\* C1: every response of a data route is returned with the connection the
\* handler acquired already closed, on the error paths too.
C1_ConnectionReleased ==
    (resp.route \in DataRoutes /\ resp.connAcquired) => resp.connClosed

\* C2: with an API key configured, a data-route request whose x-api-key is
\* missing or different is answered 401 without a connection or a statement;
\* with no key configured no request is answered 401; health is never gated.
C2_ApiKeyGate ==
    /\ (resp.route \in DataRoutes /\ Truthy(API_KEY) /\ resp.x_api_key # API_KEY)
           => (resp.status = 401 /\ ~resp.connAcquired /\ resp.statements = 0)
    /\ (resp.route \in DataRoutes /\ ~Truthy(API_KEY)) => resp.status # 401
    /\ resp.route = "health" => resp.status # 401

\* C3 as stated: a get-by-id for the id of a created record (and its sujet,
\* when it has one) succeeds and returns user_name, conversation and date_conversation (normalized to UTC)
\* identical to the values submitted.
C3_RoundTripIdentical ==
    \A row \in RowsWithId(resp.idq.id) :
        (/\ resp.route = "get_conversation_by_id"
         /\ resp.fault = "none"
         /\ IsSome(row.submitted.sujet)
                => Lower(resp.idq.sujet) = Lower(Val(row.submitted.sujet)))
        => /\ resp.status = 200
           /\ Val(resp.detail).user_name = row.submitted.user_name
           /\ Val(resp.detail).conversation = row.submitted.conversation
           /\ IsSome(row.submitted.date_conversation) =>
                  NormalizeUtc(Val(resp.detail).date_conversation)
                      = NormalizeUtc(Val(row.submitted.date_conversation))

\* C3 amended: for a record created with a sujet, a get-by-id for its id and
\* that sujet (in any letter case) whose query does not fail returns 200 with
\* the submitted conversation, the submitted user_name stripped of surrounding
\* whitespace and, for a date_conversation submitted with a UTC offset, the
\* same instant.
C3_RoundTrip ==
    \A row \in RowsWithId(resp.idq.id) :
        (/\ resp.route = "get_conversation_by_id"
         /\ resp.fault = "none"
         /\ IsSome(row.submitted.sujet)
         /\ Lower(resp.idq.sujet) = Lower(Val(row.submitted.sujet)))
        => /\ resp.status = 200
           /\ IsSome(resp.detail)
           /\ Val(resp.detail).id = resp.idq.id
           /\ Val(resp.detail).user_name = Strip(row.submitted.user_name)
           /\ Val(resp.detail).conversation = row.submitted.conversation
           /\ (/\ IsSome(row.submitted.date_conversation)
               /\ IsSome(Val(row.submitted.date_conversation).off))
              => NormalizeUtc(Val(resp.detail).date_conversation)
                     = NormalizeUtc(Val(row.submitted.date_conversation))

\* a record submitted with trailing whitespace, an offset of one hour and the
\* sujet "Bot" has been read back with the sujet "BOT"
C3_Witness ==
    /\ resp.route = "get_conversation_by_id"
    /\ resp.status = 200
    /\ resp.idq.sujet = <<"B", "O", "T">>
    /\ \E row \in RowsWithId(resp.idq.id) : row.submitted = BasePayload

\* C4: every stored row has a non-empty user_name and a non-empty conversation.
C4_NonEmptyFields ==
    \A k \in DOMAIN table :
        table[k].user_name # <<>> /\ table[k].conversation # <<>>

\* the filter C5 describes: sujet ignoring case, the UTC day when a date is
\* supplied, and the supplied user_name as a literal substring ignoring case
LiteralFilter(q, row) ==
    /\ SameSujet(row, q.sujet)
    /\ IsSome(q.date) => UtcDay(row.date_conversation) = Val(q.date)
    /\ IsSome(q.user_name) =>
           IsSubstring(Lower(Val(q.user_name)), Lower(row.user_name))

\* C5: a list response returns exactly the rows that satisfy the filter with
\* user_name read as a literal substring: every item is such a row, and an
\* unpaged response holds all of them.
C5_FilterSemantics ==
    IsList200 =>
        /\ \A k \in DOMAIN resp.items :
               \E row \in RowsWithId(resp.items[k].id) : LiteralFilter(resp.listq, row)
        /\ (resp.listq.offset = 0 /\ resp.listq.limit = MaxLimit)
               => \A j \in DOMAIN table :
                      (table[j].id < resp.seqAtSelect /\ LiteralFilter(resp.listq, table[j]))
                      => \E k \in DOMAIN resp.items : resp.items[k].id = table[j].id

\* C6 as stated: the total of a list response is the number of rows the items
\* were selected from, also when other requests insert rows meanwhile.
C6_TotalDescribesItems == IsList200 => resp.total = Cardinality(Candidates)

\* C6 amended: the total is the number of rows that satisfy the filter when the
\* COUNT statement runs, whatever limit and offset are; every item is counted
\* in it; it is the number of rows the items were selected from only when no
\* row was inserted between the two statements.
C6_TotalAtCount ==
    IsList200 =>
        /\ resp.total = Cardinality(CountedRows)
        /\ \A k \in DOMAIN resp.items :
               \E row \in CountedRows : row.id = resp.items[k].id
        /\ resp.total >= Cardinality(Candidates)
        /\ resp.seqAtCount = resp.seqAtSelect => resp.total = Cardinality(Candidates)

\* a row inserted between the SELECT and the COUNT is counted and not listed
C6_Witness ==
    /\ IsList200
    /\ resp.seqAtCount > resp.seqAtSelect
    /\ resp.listq.limit = MaxLimit
    /\ resp.listq.offset = 0
    /\ resp.total > Len(resp.items)

\* the rows the ordering of C7 puts before a row: a later timestamp, or the
\* same timestamp and a greater id
Preceding(row) ==
    {c \in Candidates :
        \/ c.date_conversation > row.date_conversation
        \/ c.date_conversation = row.date_conversation /\ c.id > row.id}

\* C7: the items of a list response are the rows at positions offset+1 ..
\* offset+limit of the matching rows ordered by timestamp descending, then id
\* descending.
C7_OrderedPage ==
    IsList200 =>
        /\ Len(resp.items) =
               Min(resp.listq.limit, Max(0, Cardinality(Candidates) - resp.listq.offset))
        /\ \A k \in DOMAIN resp.items :
               \E row \in Candidates :
                   /\ row.id = resp.items[k].id
                   /\ Cardinality(Preceding(row)) = resp.listq.offset + k - 1

\* two rows with the same timestamp match, and the page at offset 1 holds the
\* one with the smaller id
C7_Witness ==
    /\ IsList200
    /\ resp.listq.offset = 1
    /\ Len(resp.items) = 1
    /\ \E a \in Candidates, b \in Candidates :
           /\ a.id < b.id
           /\ a.date_conversation = b.date_conversation
           /\ resp.items[1].id = a.id

\* C8: in the running service, a valid get-by-id or export request whose query
\* runs and matches no row for the id and sujet is answered 404, and 500 is
\* answered only when the data layer raised.
C8_NotFound ==
    (app = "up" /\ resp.route \in {"get_conversation_by_id", "export_conversation_txt"})
    => /\ (/\ ValidIdQuery(resp.idq)
           /\ resp.fault = "none"
           /\ \A row \in RowsWithId(resp.idq.id) : ~SameSujet(row, resp.idq.sujet))
          => resp.status = 404
       /\ resp.status = 500 => resp.fault # "none"

\* an export for the id of a stored row and another sujet was answered 404
C8_Witness ==
    /\ resp.route = "export_conversation_txt"
    /\ resp.status = 404
    /\ RowsWithId(resp.idq.id) # {}

\* C9: the preview of an item is the whole conversation when it has at most 160
\* characters, and its first 160 characters followed by the marker otherwise.
C9_Preview ==
    IsList200 =>
        \A k \in DOMAIN resp.items :
            \A row \in RowsWithId(resp.items[k].id) :
                LET c == row.conversation
                    pv == resp.items[k].preview
                IN  /\ Len(c) <= PreviewLen => pv = c
                    /\ Len(c) > PreviewLen =>
                           /\ Len(pv) = PreviewLen + 1
                           /\ pv[PreviewLen + 1] = Ellipsis
                           /\ \A i \in 1..PreviewLen : pv[i] = c[i]

\* one response lists a conversation of 160 characters whole and one of 161
\* characters truncated
C9_Witness ==
    /\ IsList200
    /\ \E k \in DOMAIN resp.items :
           \E row \in RowsWithId(resp.items[k].id) :
               Len(row.conversation) = PreviewLen /\ resp.items[k].preview = row.conversation
    /\ \E k \in DOMAIN resp.items :
           \E row \in RowsWithId(resp.items[k].id) :
               /\ Len(row.conversation) = PreviewLen + 1
               /\ Len(resp.items[k].preview) = PreviewLen + 1
               /\ resp.items[k].preview[PreviewLen + 1] = Ellipsis

\* C10: the exported text is the conversation with every " , " replaced by a
\* line break and nothing else changed: no delimiter is left, putting the
\* delimiter back for each line break gives the conversation (when it held no
\* line break of its own), a conversation without delimiter is exported as it
\* is, and "a , b , c" gives three lines.
C10_ExportTransform ==
    (resp.route = "export_conversation_txt" /\ resp.status = 200) =>
        \A row \in RowsWithId(resp.idq.id) :
            LET c == row.conversation
            IN  /\ ~IsSubstring(<<" ", ",", " ">>, resp.text)
                /\ ~IsSubstring(<<"\n">>, c)
                       => StrReplace(resp.text, <<"\n">>, <<" ", ",", " ">>) = c
                /\ ~IsSubstring(<<" ", ",", " ">>, c) => resp.text = c
                /\ c = <<"a", " ", ",", " ", "b", " ", ",", " ", "c">>
                       => resp.text = <<"a", "\n", "b", "\n", "c">>

\* a conversation of overlapping delimiters was exported
C10_Witness ==
    /\ resp.route = "export_conversation_txt"
    /\ resp.status = 200
    /\ resp.text = <<"\n", ",", " ">>

====
